---- MODULE Spec2Model ----
(***************************************************************************)
(* A model of src/src/boid.rs: Boid (position, velocity, steering rules)   *)
(* and Flock (members, bounds, obstacle, neighbor_buffer, update).         *)
(*                                                                         *)
(* Numbers.  The source computes in f32.  Here an f32 value is an integer  *)
(* and every operation whose exact result is not representable is rounded  *)
(* to the nearest representable value, as IEEE arithmetic does: Quot       *)
(* rounds a quotient and Sqrt rounds a square root.  A time step dt is a   *)
(* ratio [num, den]; multiplying by it rounds once.                        *)
(*                                                                         *)
(* Indices.  Rust's members[0..n) are members[1..n] here.                  *)
(*                                                                         *)
(* Control.  The host is single threaded: it calls one method of Flock at  *)
(* a time.  pc is the position inside Flock::update ("idle" between        *)
(* calls), i the loop variable of its for loop, and dt its argument.       *)
(* call records the method called last and pre the members at the start   *)
(* of the running (or last) update; both are history variables that no     *)
(* action reads.                                                           *)
(***************************************************************************)
EXTENDS Integers, Sequences, FiniteSets

VARIABLES members, bounds, obstacle, neighbor_buffer, pc, i, dt, call, pre, steps

vars == <<members, bounds, obstacle, neighbor_buffer, pc, i, dt, call, pre, steps>>

\* ---------------------------------------------------------------- bounds

\* The number of Flock::update calls of a run.
MaxSteps == 1

\* The arguments the host passes.
Widths == {150, 1000}
Heights == {120}
ObstaclePoints == {<<45, 20>>}
Dts == {[num |-> 0, den |-> 1], [num |-> 1, den |-> 4], [num |-> 3, den |-> 2]}

\* ------------------------------------------------------------- constants

LOCAL_RANGE == 100
LOCAL_RANGE_SQ == LOCAL_RANGE * LOCAL_RANGE
MAX_SPEED == 400
MAX_ACC == 600
MARGIN == 100
OBS_ACC == MAX_ACC
\* avoid_point's threshold below which two points count as coincident
\* (0.001 in the source: below every nonzero distance of the integer grid).
EPSILON == 0
\* the radius avoid_obstacle passes to avoid_point
OBSTACLE_RADIUS == 300
\* the weights of Boid::update's sum
AVOID_WEIGHT == 6
ACC_SCALE == 10
\* test_flock's grid
rows == 10
cols == 10
SPACING == 10

\* ------------------------------------------------------------ arithmetic

\* a / b for b > 0, rounded to the nearest value (f32 division).
Quot(a, b) ==
    IF a >= 0 THEN (2 * a + b) \div (2 * b) ELSE -((2 * (-a) + b) \div (2 * b))

RECURSIVE SqrtIter(_, _)
SqrtIter(n, x) ==
    LET y == (x + n \div x) \div 2
    IN  IF y >= x THEN x ELSE SqrtIter(n, y)

\* the largest r with r * r <= n
FloorSqrt(n) == IF n = 0 THEN 0 ELSE SqrtIter(n, IF n > 46340 THEN 46340 ELSE n)

\* f32::sqrt: the square root rounded to the nearest value.
Sqrt(n) ==
    LET r == FloorSqrt(n)
    IN  IF n - r * r > r THEN r + 1 ELSE r

\* ---------------------------------------------------------- Vector2<f32>

Vec(x, y) == [x |-> x, y |-> y]
Zeros == Vec(0, 0)
VAdd(a, b) == Vec(a.x + b.x, a.y + b.y)
VSub(a, b) == Vec(a.x - b.x, a.y - b.y)
VScale(k, a) == Vec(k * a.x, k * a.y)
VDiv(a, k) == Vec(Quot(a.x, k), Quot(a.y, k))
\* v * s for the time step s = num/den
VTimes(a, s) == Vec(Quot(a.x * s.num, s.den), Quot(a.y * s.num, s.den))
magnitude_squared(a) == a.x * a.x + a.y * a.y
magnitude(a) == Sqrt(magnitude_squared(a))

\* Option<Point2<f32>>
None == [tag |-> "None"]
Some(p) == [tag |-> "Some", point |-> p]

\* ------------------------------------------------------------------ Boid

\* Boid::new with the velocity along the y axis
BoidNew_YAxis(x, y) == [position |-> Vec(x, y), velocity |-> Vec(0, 1)]

\* Boid::new
BoidNew(x, y) == [position |-> Vec(x, y), velocity |-> Vec(1, 0)]

\* struct Boid is repr(C): transmute::<Boid, [f32; 4]> reads its fields in
\* declaration order.
transmute(b) == <<b.position.x, b.position.y, b.velocity.x, b.velocity.y>>

\* Boid::is_close with <= for <
is_close_Inclusive(self, other) ==
    LET dist_sq == magnitude_squared(VSub(self.position, other.position))
    IN  dist_sq <= LOCAL_RANGE_SQ

\* Boid::is_close
is_close(self, other) ==
    LET dist_sq == magnitude_squared(VSub(self.position, other.position))
    IN  dist_sq < LOCAL_RANGE_SQ

clamp_mag(v, max) ==
    LET mag == magnitude(v)
    IN  IF mag > max THEN VDiv(VScale(max, v), mag) ELSE v

\* Boid::acc_to_target_speed
acc_to_target_speed(self) ==
    LET v_mag == magnitude(self.velocity)
    IN  IF v_mag > EPSILON
        THEN LET diff == MAX_SPEED - v_mag
             IN  VDiv(VScale(diff, self.velocity), v_mag)
        ELSE Vec(1, 0)

\* Boid::avoid_point
avoid_point(self, point, radius) ==
    LET diff == VSub(self.position, point)
        diff_mag == magnitude(diff)
    IN  IF diff_mag > EPSILON
        THEN LET avoid_mag == radius - diff_mag
             IN  IF avoid_mag > 0
                 THEN VDiv(VScale(avoid_mag, diff), diff_mag)
                 ELSE Zeros
        ELSE Zeros

\* The for loop of Boid::avoid over group[lo..hi].  Integer addition is
\* exact, so the total of a range is the sum of the totals of its halves;
\* computing it that way keeps the evaluation shallow.
RECURSIVE AvoidTotal(_, _, _, _)
AvoidTotal(self, group, lo, hi) ==
    IF lo > hi THEN Zeros
    ELSE IF lo = hi THEN avoid_point(self, group[lo].position, LOCAL_RANGE)
    ELSE LET mid == (lo + hi) \div 2
         IN  VAdd(AvoidTotal(self, group, lo, mid), AvoidTotal(self, group, mid + 1, hi))

\* Boid::avoid
avoid(self, group) ==
    IF Len(group) > 0
    THEN VDiv(AvoidTotal(self, group, 1, Len(group)), Len(group))
    ELSE Zeros

\* Boid::avoid_obstacle
avoid_obstacle(self, obs) ==
    IF obs.tag = "Some" THEN avoid_point(self, obs.point, OBSTACLE_RADIUS)
    ELSE Zeros

\* Boid::avoid_bounds
avoid_bounds(self, bnd) ==
    LET t1 == IF self.position.x < MARGIN THEN Vec(OBS_ACC, 0) ELSE Zeros
        t2 == IF self.position.y < MARGIN THEN Vec(0, OBS_ACC) ELSE Zeros
        t3 == IF self.position.x > bnd.x - MARGIN THEN Vec(-OBS_ACC, 0) ELSE Zeros
        t4 == IF self.position.y > bnd.y - MARGIN THEN Vec(0, -OBS_ACC) ELSE Zeros
    IN  VAdd(VAdd(VAdd(t1, t2), t3), t4)

\* the for loops of center_of_mass and average_heading over group[lo..hi]
RECURSIVE PositionTotal(_, _, _)
PositionTotal(group, lo, hi) ==
    IF lo > hi THEN Zeros
    ELSE IF lo = hi THEN group[lo].position
    ELSE LET mid == (lo + hi) \div 2
         IN  VAdd(PositionTotal(group, lo, mid), PositionTotal(group, mid + 1, hi))

RECURSIVE VelocityTotal(_, _, _)
VelocityTotal(group, lo, hi) ==
    IF lo > hi THEN Zeros
    ELSE IF lo = hi THEN group[lo].velocity
    ELSE LET mid == (lo + hi) \div 2
         IN  VAdd(VelocityTotal(group, lo, mid), VelocityTotal(group, mid + 1, hi))

center_of_mass(group) ==
    IF Len(group) = 0 THEN None
    ELSE Some(VDiv(PositionTotal(group, 1, Len(group)), Len(group)))

average_heading(group) ==
    IF Len(group) > 0
    THEN Some(VDiv(VelocityTotal(group, 1, Len(group)), Len(group)))
    ELSE None

\* Boid::to_center
to_center(self, group) ==
    LET c == center_of_mass(group)
        com == IF c.tag = "Some" THEN c.point ELSE self.position
    IN  VSub(com, self.position)

\* Boid::match_heading
match_heading(self, group) ==
    LET h == average_heading(group)
    IN  IF h.tag = "Some" THEN VSub(h.point, self.velocity) ELSE Zeros

\* the acc of Boid::update
Acc(self, neighbors, bnd, obs) ==
    VScale(ACC_SCALE,
           VAdd(VAdd(VAdd(VAdd(VAdd(VScale(AVOID_WEIGHT, avoid(self, neighbors)),
                                    to_center(self, neighbors)),
                               match_heading(self, neighbors)),
                          acc_to_target_speed(self)),
                     avoid_bounds(self, bnd)),
                avoid_obstacle(self, obs)))

\* Boid::update without its last line, the clamp to MAX_SPEED
BoidUpdate_NoSpeedClamp(self, neighbors, s, bnd, obs) ==
    LET acc == Acc(self, neighbors, bnd, obs)
    IN  [self EXCEPT !.velocity = VAdd(self.velocity, VTimes(clamp_mag(acc, MAX_ACC), s))]

\* Boid::update that also integrates the position
BoidUpdate_Moves(self, neighbors, s, bnd, obs) ==
    LET acc == Acc(self, neighbors, bnd, obs)
        v1 == VAdd(self.velocity, VTimes(clamp_mag(acc, MAX_ACC), s))
        v2 == clamp_mag(v1, MAX_SPEED)
    IN  [position |-> VAdd(self.position, VTimes(v2, s)), velocity |-> v2]

\* Boid::update: the boid it leaves in self
BoidUpdate(self, neighbors, s, bnd, obs) ==
    LET acc == Acc(self, neighbors, bnd, obs)
        v1 == VAdd(self.velocity, VTimes(clamp_mag(acc, MAX_ACC), s))
    IN  [self EXCEPT !.velocity = clamp_mag(v1, MAX_SPEED)]

\* ----------------------------------------------------------------- Flock

\* Flock::empty
FlockEmpty(x, y) ==
    [members |-> <<>>, bounds |-> Vec(x, y), obstacle |-> None,
     neighbor_buffer |-> <<>>]

\* Flock::test_flock: the boid pushed k-th (k = 1..rows*cols) has the loop
\* variables i = (k-1) div cols and j = (k-1) mod cols.
FlockTest(x, y) ==
    [members |-> [k \in 1..(rows * cols) |->
                    BoidNew(((k - 1) \div cols) * SPACING,
                            ((k - 1) % cols) * SPACING)],
     bounds |-> Vec(x, y), obstacle |-> None, neighbor_buffer |-> <<>>]

\* The for loop of set_neighbor_buffer over members[lo..hi]: the clones it
\* pushes, in order (the pushes of a range are those of its first half
\* followed by those of its second half).
RECURSIVE PushClose(_, _, _, _)
PushClose(ms, member_index, lo, hi) ==
    IF lo > hi THEN <<>>
    ELSE IF lo = hi
         THEN IF lo # member_index /\ is_close(ms[member_index], ms[lo])
              THEN <<ms[lo]>>
              ELSE <<>>
    ELSE LET mid == (lo + hi) \div 2
         IN  PushClose(ms, member_index, lo, mid) \o PushClose(ms, member_index, mid + 1, hi)

\* set_neighbor_buffer without its clear()
clear_Missing(buf) == buf

\* Vec::clear
clear(buf) == <<>>

\* Flock::set_neighbor_buffer: the buffer it leaves (buf is the buffer before)
set_neighbor_buffer(ms, buf, member_index) ==
    clear(buf) \o PushClose(ms, member_index, 1, Len(ms))

\* update_positions integrating the velocities of the start of the step
update_positions_Stale(ms, s) ==
    [k \in 1..Len(ms) |->
        [ms[k] EXCEPT !.position = VAdd(ms[k].position, VTimes(pre[k].velocity, s))]]

\* update_positions collecting the moved boids in reverse
update_positions_Reversed(ms, s) ==
    [k \in 1..Len(ms) |->
        [ms[Len(ms) + 1 - k] EXCEPT
            !.position = VAdd(ms[Len(ms) + 1 - k].position,
                              VTimes(ms[Len(ms) + 1 - k].velocity, s))]]

\* Flock::update_positions
update_positions(ms, s) ==
    [k \in 1..Len(ms) |->
        [ms[k] EXCEPT !.position = VAdd(ms[k].position, VTimes(ms[k].velocity, s))]]

\* Flock::num_boids
num_boids == Len(members)

\* -------------------------------------------------------- initial states

Init ==
    \E w \in Widths, h \in Heights :
        \E f \in {FlockEmpty(w, h), FlockTest(w, h)} :
            /\ members = f.members
            /\ bounds = f.bounds
            /\ obstacle = f.obstacle
            /\ neighbor_buffer = f.neighbor_buffer
            /\ pc = "idle"
            /\ i = 0
            /\ dt = [num |-> 0, den |-> 1]
            /\ call = [name |-> IF f = FlockEmpty(w, h) THEN "empty" ELSE "test_flock",
                       args |-> <<w, h>>]
            /\ pre = f.members
            /\ steps = 0

\* ---------------------------------------------------------------- actions

\* Flock::set_width
SetWidth(width) ==
    /\ pc = "idle"
    /\ bounds' = [bounds EXCEPT !.x = width]
    /\ call' = [name |-> "set_width", args |-> <<width>>]
    /\ UNCHANGED <<members, obstacle, neighbor_buffer, pc, i, dt, pre, steps>>

\* Flock::set_height (its parameter is named width in the source)
SetHeight(width) ==
    /\ pc = "idle"
    /\ bounds' = [bounds EXCEPT !.x = width]
    /\ call' = [name |-> "set_height", args |-> <<width>>]
    /\ UNCHANGED <<members, obstacle, neighbor_buffer, pc, i, dt, pre, steps>>

\* Flock::set_obstacle storing x twice
SetObstacle_XX(x, y) ==
    /\ pc = "idle"
    /\ obstacle' = Some(Vec(x, x))
    /\ call' = [name |-> "set_obstacle", args |-> <<x, y>>]
    /\ UNCHANGED <<members, bounds, neighbor_buffer, pc, i, dt, pre, steps>>

\* Flock::set_obstacle
SetObstacle(x, y) ==
    /\ pc = "idle"
    /\ obstacle' = Some(Vec(x, y))
    /\ call' = [name |-> "set_obstacle", args |-> <<x, y>>]
    /\ UNCHANGED <<members, bounds, neighbor_buffer, pc, i, dt, pre, steps>>

\* Flock::clear_obstacle
ClearObstacle ==
    /\ pc = "idle"
    /\ obstacle' = None
    /\ call' = [name |-> "clear_obstacle", args |-> <<>>]
    /\ UNCHANGED <<members, bounds, neighbor_buffer, pc, i, dt, pre, steps>>

\* Flock::update is entered: the for loop starts at the first member, or is
\* skipped when there is none.
UpdateEnter(s) ==
    /\ pc = "idle"
    /\ steps < MaxSteps
    /\ steps' = steps + 1
    /\ dt' = s
    /\ i' = 1
    /\ pc' = IF Len(members) = 0 THEN "update_positions" ELSE "set_neighbor_buffer"
    /\ call' = [name |-> "update", args |-> <<s>>]
    /\ pre' = members
    /\ UNCHANGED <<members, bounds, obstacle, neighbor_buffer>>

\* self.set_neighbor_buffer(i)
UpdateSetNeighborBuffer ==
    /\ pc = "set_neighbor_buffer"
    /\ neighbor_buffer' = set_neighbor_buffer(members, neighbor_buffer, i)
    /\ pc' = "member_update"
    /\ UNCHANGED <<members, bounds, obstacle, i, dt, call, pre, steps>>

\* self.members[i].update(&self.neighbor_buffer, dt, self.bounds, self.obstacle)
\* and the loop's step
UpdateMember ==
    /\ pc = "member_update"
    /\ members' = [members EXCEPT
                     ![i] = BoidUpdate(members[i], neighbor_buffer, dt, bounds, obstacle)]
    /\ i' = i + 1
    /\ pc' = IF i = Len(members) THEN "update_positions" ELSE "set_neighbor_buffer"
    /\ UNCHANGED <<bounds, obstacle, neighbor_buffer, dt, call, pre, steps>>

\* self.update_positions(dt), and Flock::update returns
UpdatePositions ==
    /\ pc = "update_positions"
    /\ members' = update_positions(members, dt)
    /\ pc' = "idle"
    /\ UNCHANGED <<bounds, obstacle, neighbor_buffer, i, dt, call, pre, steps>>

Next ==
    \/ \E w \in Widths : SetWidth(w)
    \/ \E h \in Heights : SetHeight(h)
    \/ \E p \in ObstaclePoints : SetObstacle(p[1], p[2])
    \/ ClearObstacle
    \/ \E s \in Dts : UpdateEnter(s)
    \/ UpdateSetNeighborBuffer
    \/ UpdateMember
    \/ UpdatePositions

Spec == Init /\ [][Next]_vars

\* ------------------------------------------------------------ vocabulary

Positions(ms) == [k \in 1..Len(ms) |-> ms[k].position]

\* Flock::update has returned and nothing was called since.
AfterUpdate == pc = "idle" /\ call.name = "update"

\* The squared distance of two points, exactly.
DistSq(p, q) == (p.x - q.x) * (p.x - q.x) + (p.y - q.y) * (p.y - q.y)

\* A step computed in two passes: every new velocity from the snapshot ms
\* taken at the start of the step, then every position.
TwoPassStep(ms, s, bnd, obs) ==
    update_positions(
        [k \in 1..Len(ms) |->
            BoidUpdate(ms[k], set_neighbor_buffer(ms, <<>>, k), s, bnd, obs)],
        s)

\* The indices, in stored order, of the members other than member_index
\* whose position in ms is less than LOCAL_RANGE from that of member_index.
CloseIndices(ms, member_index) ==
    SelectSeq([k \in 1..Len(ms) |-> k],
              LAMBDA j : j # member_index
                         /\ DistSq(ms[member_index].position, ms[j].position)
                              < LOCAL_RANGE * LOCAL_RANGE)

\* ----------------------------------------------------------------- claims

\* C1: the state after the in-place step Flock::update(dt) equals the state
\* after a two-pass step that computes every new velocity against the
\* snapshot taken at the start of the step.
C1_InPlaceEqualsTwoPass ==
    AfterUpdate => members = TwoPassStep(pre, dt, bounds, obstacle)

\* C2: set_width(w) sets bounds.x to w and leaves bounds.y unchanged,
\* set_height(h) sets bounds.y to h and leaves bounds.x unchanged, and
\* neither changes the agents or the obstacle.
C2_BoundsSetters ==
    [][/\ (pc = "idle" /\ call'.name = "set_width")
            => /\ bounds' = Vec(call'.args[1], bounds.y)
               /\ members' = members /\ obstacle' = obstacle
       /\ (pc = "idle" /\ call'.name = "set_height")
            => /\ bounds' = Vec(bounds.x, call'.args[1])
               /\ members' = members /\ obstacle' = obstacle]_vars

C4_PositionIntegration ==
    /\ AfterUpdate =>
          \A k \in 1..Len(members) :
              members[k].position
                 = VAdd(pre[k].position, VTimes(members[k].velocity, dt))
    /\ pc = "update_positions" =>
          /\ i = Len(members) + 1
          /\ Positions(members) = Positions(pre)

\* a step has changed an agent's velocity and moved it
C4_Witness ==
    /\ AfterUpdate
    /\ \E k \in 1..Len(members) :
          /\ members[k].velocity # pre[k].velocity
          /\ members[k].position # pre[k].position
          /\ VTimes(members[k].velocity, dt) # VTimes(pre[k].velocity, dt)

\* C5: the number of agents is fixed at construction (0 for empty, 100 for
\* test_flock) and no call changes it or reorders the members: across every
\* step each index keeps its position or its velocity.
C5_CountAndOrderFixed ==
    /\ [](num_boids = IF call.name = "empty" THEN 0
                      ELSE IF call.name = "test_flock" THEN 100
                      ELSE Len(pre))
    /\ [][/\ Len(members') = Len(members)
          /\ \A k \in 1..Len(members) :
                \/ members'[k].position = members[k].position
                \/ members'[k].velocity = members[k].velocity]_vars

\* a test flock after a step that moved its agents and a setter call
C5_Witness ==
    /\ pc = "idle"
    /\ call.name \in {"set_width", "set_height", "set_obstacle", "clear_obstacle"}
    /\ num_boids = 100
    /\ Positions(members) # Positions(pre)

\* C6: in the velocity phase the update of agent i changes only agent i's
\* velocity, and no position changes while Flock::update's loop runs.
C6_UpdateChangesOnlyVelocity ==
    /\ [](pc \in {"set_neighbor_buffer", "member_update", "update_positions"}
            => Positions(members) = Positions(pre))
    /\ [][pc = "member_update" =>
            /\ \A k \in 1..Len(members) :
                  /\ members'[k].position = members[k].position
                  /\ k # i => members'[k] = members[k]
            /\ Len(members') = Len(members)
            /\ bounds' = bounds
            /\ obstacle' = obstacle]_vars

\* agent i's update has just changed its velocity, mid-loop
C6_Witness ==
    /\ pc = "set_neighbor_buffer"
    /\ i > 1
    /\ members[i - 1].velocity # pre[i - 1].velocity

\* C7: test_flock(w, h) produces exactly 100 agents whose positions are
\* exactly the grid {(10a, 10b) : 0 <= a, b < 10}, each with velocity (1, 0),
\* bounds (w, h) and no obstacle; Boid::new(x, y) is laid out as x, y, 1, 0.
C7_TestFlock ==
    /\ call.name = "test_flock" =>
          /\ Len(members) = 100
          /\ {members[k].position : k \in 1..Len(members)}
                = {Vec(10 * a, 10 * b) : a \in 0..9, b \in 0..9}
          /\ \A k \in 1..Len(members) : members[k].velocity = Vec(1, 0)
          /\ bounds = Vec(call.args[1], call.args[2])
          /\ obstacle = None
    /\ \A x \in -2..2, y \in -2..2 : transmute(BoidNew(x, y)) = <<x, y, 1, 0>>

\* a flock just built by test_flock
C7_Witness ==
    /\ call.name = "test_flock"
    /\ Len(members) = 100
    /\ \E w \in Widths, h \in Heights : bounds = Vec(w, h)

\* C8: is_close is symmetric, and true exactly when the squared distance of
\* the two positions is strictly less than 10000.
C8_IsCloseSymmetricStrict ==
    (pc = "idle" /\ call.name \in {"test_flock", "update"}) =>
        \A a \in 1..Len(members), b \in 1..Len(members) :
            /\ is_close(members[a], members[b]) = is_close(members[b], members[a])
            /\ is_close(members[a], members[b])
                 <=> DistSq(members[a].position, members[b].position) < 10000

\* two agents exactly 100 apart, not close, and two agents that are close
C8_Witness ==
    /\ pc = "idle"
    /\ \E a \in 1..Len(members), b \in 1..Len(members) :
          /\ DistSq(members[a].position, members[b].position) = 10000
          /\ ~is_close(members[a], members[b])
    /\ \E a \in 1..Len(members), b \in 1..Len(members) :
          a # b /\ is_close(members[a], members[b])

\* C9: a flock starts with no obstacle; set_obstacle(x, y) leaves the
\* obstacle at (x, y); clear_obstacle leaves none, and then every agent's
\* obstacle avoidance is the zero vector; no other call changes the
\* obstacle, and update changes neither the obstacle nor the bounds.
C9_ObstacleFollowsSetters ==
    /\ [](/\ call.name \in {"empty", "test_flock"} => obstacle = None
          /\ call.name = "set_obstacle"
                => obstacle = Some(Vec(call.args[1], call.args[2]))
          /\ call.name = "clear_obstacle"
                => /\ obstacle = None
                   /\ \A k \in 1..Len(members) :
                         avoid_obstacle(members[k], obstacle) = Zeros)
    /\ [][/\ call'.name \notin {"set_obstacle", "clear_obstacle"}
                => obstacle' = obstacle
          /\ call'.name = "update" => bounds' = bounds]_vars

\* a step has run with the obstacle set before it, which pushed an agent
C9_Witness ==
    /\ AfterUpdate
    /\ obstacle = Some(Vec(45, 20))
    /\ \E k \in 1..Len(pre) : avoid_obstacle(pre[k], obstacle) # Zeros

\* C10: the neighbour list passed to agent i's update holds exactly the
\* agents j # i whose pre-step position is within LOCAL_RANGE of agent i's,
\* each once and in stored order.
C10_NeighborsExact ==
    pc = "member_update" =>
        LET expected == CloseIndices(pre, i)
        IN  /\ Len(neighbor_buffer) = Len(expected)
            /\ \A n \in 1..Len(expected) :
                  neighbor_buffer[n].position = pre[expected[n]].position

\* agent i > 1 is handed a list that is neither empty nor everyone else,
\* after agent i - 1 was handed a different one
C10_Witness ==
    /\ pc = "member_update"
    /\ i > 1
    /\ Len(neighbor_buffer) > 0
    /\ Len(neighbor_buffer) < Len(members) - 1
    /\ Len(neighbor_buffer) # Len(CloseIndices(pre, i - 1))

====
